---- MODULE Spec2Model ----
(***************************************************************************)
(* Model of src/schedule_generator.py: class ScheduleGenerator with its    *)
(* employee list (the Roster) and its schedule dict (the ScheduleStore),   *)
(* the Shift objects the schedule shares with the caller's templates, and  *)
(* the JSON file written by save_data and read by load_data.               *)
(*                                                                         *)
(* Python objects that are mutated in place (Shift) live in a heap and are *)
(* referred to by reference; dicts keep insertion order and are modelled   *)
(* as sequences of entries; date strings "YYYY-MM-DD" are triples          *)
(* <<year, month, day>> and datetime values are proleptic ordinals.        *)
(***************************************************************************)
EXTENDS Integers, Sequences, FiniteSets, TLC

VARIABLES employees, schedule, heap, templates, file, lastOp

vars == <<employees, schedule, heap, templates, file, lastOp>>

(* ------------------------------ bounds --------------------------------- *)

\* most employees the roster holds in the model
MaxEmployees == 2

\* most Shift objects the caller constructs in the model
MaxShiftObjects == 3

\* shift indices the caller passes lie in -IndexSpan .. IndexSpan - 1
IndexSpan == 2

(* --------------------------- Python values ----------------------------- *)

\* None where a string is expected (Optional[str]), and None as a return value
None == "None"

\* None where an Employee is expected (Optional[Employee])
NoEmployee == [none |-> "Employee"]

\* Return values are written "True", "False", "None" and "schedule" (the dict
\* create_weekly_schedule returns); a call that raises "returns" the name of
\* its exception ("IndexError", "ValueError", "TypeError", "AttributeError");
\* a rendering "returns" the rows it writes.

\* truth value of an Optional[str] in "if shift.employee_id:"
Truthy(x) == x # None /\ x # ""

Range(s) == {s[i] : i \in 1..Len(s)}

\* x in list
InList(x, s) == \E i \in 1..Len(s) : s[i] = x

days == <<"Monday", "Tuesday", "Wednesday", "Thursday", "Friday", "Saturday", "Sunday">>

DefaultAvailableDays == <<"Monday", "Tuesday", "Wednesday", "Thursday", "Friday">>

DefaultMaxHours == 40

\* Employee(name=name, id=id, available_days=available_days)
Employee(name, id, available_days) ==
    [name |-> name, id |-> id, department |-> None,
     max_hours_per_week |-> DefaultMaxHours, available_days |-> available_days]

\* Employee(name=name, id=id): __post_init__ fills in the default days
EmployeeDefault(name, id) == Employee(name, id, DefaultAvailableDays)

\* Shift(start_time, end_time, position), employee_id defaults to None
Shift(start_time, end_time, position) ==
    [start_time |-> start_time, end_time |-> end_time, position |-> position,
     employee_id |-> None]

(* ------------------------------ dates ---------------------------------- *)

IsLeap(y) == y % 4 = 0 /\ (y % 100 # 0 \/ y % 400 = 0)

DaysInMonth(y, m) ==
    IF m = 2 THEN (IF IsLeap(y) THEN 29 ELSE 28)
    ELSE IF m \in {4, 6, 9, 11} THEN 30 ELSE 31

RECURSIVE DaysBeforeMonth(_, _)
DaysBeforeMonth(y, m) ==
    IF m = 1 THEN 0 ELSE DaysBeforeMonth(y, m - 1) + DaysInMonth(y, m - 1)

DaysBeforeYear(y) ==
    (y - 1) * 365 + ((y - 1) \div 4) - ((y - 1) \div 100) + ((y - 1) \div 400)

ValidDate(s) == s[2] \in 1..12 /\ s[3] \in 1..DaysInMonth(s[1], s[2])

ymd2ord(s) == DaysBeforeYear(s[1]) + DaysBeforeMonth(s[1], s[2]) + s[3]

\* datetime.strptime(s, "%Y-%m-%d"): the datetime, or 0 where it raises ValueError
strptime(s) == IF ValidDate(s) THEN ymd2ord(s) ELSE 0

\* the year an ordinal falls in, by the 400-, 100-, 4- and 1-year cycles
YearOf(n) ==
    LET n400 == (n - 1) \div 146097
        r400 == (n - 1) % 146097
        n100 == r400 \div 36524
        r100 == r400 % 36524
        n4 == r100 \div 1461
        n1 == (r100 % 1461) \div 365
        year == n400 * 400 + n100 * 100 + n4 * 4 + n1 + 1
    IN IF n1 = 4 \/ n100 = 4 THEN year - 1 ELSE year

RECURSIVE MonthOf(_, _, _)
\* the month the n-th day of year y falls in, searched from month m on
MonthOf(n, y, m) ==
    IF n <= DaysBeforeMonth(y, m) + DaysInMonth(y, m) THEN m ELSE MonthOf(n, y, m + 1)

\* datetime.strftime("%Y-%m-%d"): the date string of a datetime
strftime(n) ==
    LET y == YearOf(n)
        dayOfYear == n - DaysBeforeYear(y)
        m == MonthOf(dayOfYear, y, 1)
    IN <<y, m, dayOfYear - DaysBeforeMonth(y, m)>>

(* ------------------------- insertion-ordered dict ---------------------- *)

HasKey(d, k) == \E i \in 1..Len(d) : d[i].date = k

KeyPos(d, k) == CHOOSE i \in 1..Len(d) : d[i].date = k

\* d[k] = v : replace in place when the key exists, append otherwise
DictSet(d, k, v) ==
    IF HasKey(d, k)
    THEN [d EXCEPT ![KeyPos(d, k)] = [date |-> k, day |-> v.day, shifts |-> v.shifts]]
    ELSE Append(d, [date |-> k, day |-> v.day, shifts |-> v.shifts])

\* shifts_per_day.get(day, [])
TemplateGet(t, day) == IF day \in DOMAIN t THEN t[day] ELSE <<>>

(* ------------------------------ Roster --------------------------------- *)

\* the first employee with that id, or None
get_employee(emps, employee_id) ==
    IF \E i \in 1..Len(emps) : emps[i].id = employee_id
    THEN emps[CHOOSE i \in 1..Len(emps) :
                 /\ emps[i].id = employee_id
                 /\ \A j \in 1..(i - 1) : emps[j].id # employee_id]
    ELSE NoEmployee

\* a removal that stops at the first match
remove_first_match(emps, employee_id) ==
    IF \E i \in 1..Len(emps) : emps[i].id = employee_id
    THEN LET i == CHOOSE i \in 1..Len(emps) :
                      /\ emps[i].id = employee_id
                      /\ \A j \in 1..(i - 1) : emps[j].id # employee_id
         IN SubSeq(emps, 1, i - 1) \o SubSeq(emps, i + 1, Len(emps))
    ELSE emps

\* [emp for emp in self.employees if emp.id != employee_id]
remove_employee(emps, employee_id) ==
    SelectSeq(emps, LAMBDA emp : emp.id # employee_id)

(* ---------------------------- ScheduleStore ---------------------------- *)

RECURSIVE BuildWeek(_, _, _, _)
\* the loop "for i, day in enumerate(days)" from offset i on
BuildWeek(start, shifts_per_day, i, acc) ==
    IF i >= Len(days) THEN acc
    ELSE LET day == days[i + 1]
             current_date == start + i
             date_str == strftime(current_date)
         IN BuildWeek(start, shifts_per_day, i + 1,
                      DictSet(acc, date_str,
                              [day |-> day, shifts |-> TemplateGet(shifts_per_day, day)]))

\* a creation that adds the week to the schedule it finds
create_weekly_schedule_merging(sched, start_date, shifts_per_day) ==
    LET start == strptime(start_date)
    IN IF start = 0
       THEN [ret |-> "ValueError", schedule |-> sched]
       ELSE [ret |-> "schedule", schedule |-> BuildWeek(start, shifts_per_day, 0, sched)]

\* [ret, schedule]: self.schedule after the call on a store holding sched
create_weekly_schedule(sched, start_date, shifts_per_day) ==
    LET start == strptime(start_date)
    IN IF start = 0
       THEN [ret |-> "ValueError", schedule |-> sched]
       ELSE [ret |-> "schedule", schedule |-> BuildWeek(start, shifts_per_day, 0, <<>>)]

\* lst[i] of a Python list: the 1-based position, or 0 for IndexError
ListIndex(lst, i) ==
    IF i >= 0 THEN (IF i < Len(lst) THEN i + 1 ELSE 0)
    ELSE (IF -i <= Len(lst) THEN Len(lst) + i + 1 ELSE 0)

\* the guard "shift_index < len(self.schedule[date]['shifts'])"
IndexGuard(shift_index, shifts) == shift_index < Len(shifts)

\* an assignment that skips the availability test
IsAvailableAnyDay(employee, day) == TRUE

\* the test "self.schedule[date]['day'] in employee.available_days"
IsAvailable(employee, day) == InList(day, employee.available_days)

\* [ret, heap]: the return value (or exception) and the Shift objects after the call
assign_employee_to_shift(emps, sched, hp, date, shift_index, employee_id) ==
    IF HasKey(sched, date) /\ IndexGuard(shift_index, sched[KeyPos(sched, date)].shifts)
    THEN LET entry == sched[KeyPos(sched, date)]
             employee == get_employee(emps, employee_id)
         IN IF employee # NoEmployee /\ IsAvailable(employee, entry.day)
            THEN LET pos == ListIndex(entry.shifts, shift_index)
                 IN IF pos = 0
                    THEN [ret |-> "IndexError", heap |-> hp]
                    ELSE [ret |-> "True",
                          heap |-> [hp EXCEPT ![entry.shifts[pos]].employee_id = employee_id]]
            ELSE [ret |-> "False", heap |-> hp]
    ELSE [ret |-> "False", heap |-> hp]

(* ------------------------------ rendering ------------------------------ *)

\* the value of employee_name for one shift, starting from the given initial text
employee_name(emps, shift, initial) ==
    IF Truthy(shift.employee_id)
    THEN LET emp == get_employee(emps, shift.employee_id)
         IN IF emp # NoEmployee THEN emp.name ELSE shift.employee_id
    ELSE initial

RECURSIVE CsvShiftRows(_, _, _, _)
CsvShiftRows(emps, hp, entry, i) ==
    IF i > Len(entry.shifts) THEN <<>>
    ELSE LET shift == hp[entry.shifts[i]]
         IN <<[date |-> entry.date, day |-> entry.day, start_time |-> shift.start_time,
               end_time |-> shift.end_time, position |-> shift.position,
               employee |-> employee_name(emps, shift, "")]>>
            \o CsvShiftRows(emps, hp, entry, i + 1)

RECURSIVE CsvRows(_, _, _, _)
CsvRows(emps, sched, hp, k) ==
    IF k > Len(sched) THEN <<>>
    ELSE CsvShiftRows(emps, hp, sched[k], 1) \o CsvRows(emps, sched, hp, k + 1)

\* the data rows written after the header row
export_to_csv(emps, sched, hp) == CsvRows(emps, sched, hp, 1)

RECURSIVE HtmlShiftRows(_, _, _, _)
HtmlShiftRows(emps, hp, entry, i) ==
    IF i > Len(entry.shifts) THEN <<>>
    ELSE LET shift == hp[entry.shifts[i]]
         IN <<[css_class |-> IF Truthy(shift.employee_id) THEN "" ELSE "unassigned",
               date |-> entry.date, day |-> entry.day,
               time |-> <<shift.start_time, shift.end_time>>,
               position |-> shift.position,
               employee |-> employee_name(emps, shift, "UNASSIGNED")]>>
            \o HtmlShiftRows(emps, hp, entry, i + 1)

RECURSIVE HtmlRows(_, _, _, _)
HtmlRows(emps, sched, hp, k) ==
    IF k > Len(sched) THEN <<>>
    ELSE HtmlShiftRows(emps, hp, sched[k], 1) \o HtmlRows(emps, sched, hp, k + 1)

\* the <tr> rows appended to the table
export_to_html(emps, sched, hp) == HtmlRows(emps, sched, hp, 1)

RECURSIVE TextShiftLines(_, _, _, _)
TextShiftLines(emps, hp, entry, i) ==
    IF i > Len(entry.shifts) THEN <<>>
    ELSE LET shift == hp[entry.shifts[i]]
         IN <<[date |-> entry.date, day |-> entry.day, start_time |-> shift.start_time,
               end_time |-> shift.end_time, position |-> shift.position,
               employee |-> employee_name(emps, shift, "UNASSIGNED")]>>
            \o TextShiftLines(emps, hp, entry, i + 1)

RECURSIVE TextLines(_, _, _, _)
TextLines(emps, sched, hp, k) ==
    IF k > Len(sched) THEN <<>>
    ELSE LET entry == sched[k]
         IN <<[heading |-> entry.date, day |-> entry.day]>>
            \o (IF Len(entry.shifts) = 0
                THEN <<[placeholder |-> "No shifts scheduled"]>>
                ELSE TextShiftLines(emps, hp, entry, 1))
            \o TextLines(emps, sched, hp, k + 1)

\* the lines printed after the banner
print_schedule(emps, sched, hp) == TextLines(emps, sched, hp, 1)

(* ----------------------------- persistence ----------------------------- *)

\* the file does not exist
Missing == [kind |-> "missing"]

\* the file holds text json.load cannot parse
Unparseable == [kind |-> "unparseable"]

\* the file holds valid JSON that is not an object
NotAnObject == [kind |-> "not_an_object"]

JsonDocument(emps, sched) == [kind |-> "json", employees |-> emps, schedule |-> sched]

\* dataclasses.asdict(emp)
asdict(emp) ==
    [name |-> emp.name, id |-> emp.id, department |-> emp.department,
     max_hours_per_week |-> emp.max_hours_per_week,
     available_days |-> emp.available_days]

\* Employee(**emp_data); asdict never writes available_days as null, so
\* __post_init__ leaves the list as read
EmployeeFromDict(emp_data) ==
    [name |-> emp_data.name, id |-> emp_data.id, department |-> emp_data.department,
     max_hours_per_week |-> emp_data.max_hours_per_week,
     available_days |-> emp_data.available_days]

\* json.dump meets a Shift object, which it cannot serialize
HoldsShiftObject(sched) == \E k \in 1..Len(sched) : Len(sched[k].shifts) > 0

\* [ret, file]: open(filename, 'w') truncates the file, json.dump streams into it
save_data(emps, sched) ==
    IF HoldsShiftObject(sched)
    THEN [ret |-> "TypeError", file |-> Unparseable]
    ELSE [ret |-> None,
          file |-> JsonDocument([i \in 1..Len(emps) |-> asdict(emps[i])], sched)]

\* a load that resets the store before it opens the file
load_data_resetting(f, emps, sched) ==
    IF f = Missing THEN [ret |-> "False", employees |-> <<>>, schedule |-> <<>>]
    ELSE IF f = Unparseable THEN [ret |-> "False", employees |-> <<>>, schedule |-> <<>>]
    ELSE IF f = NotAnObject
    THEN [ret |-> "AttributeError", employees |-> <<>>, schedule |-> <<>>]
    ELSE [ret |-> "True",
          employees |-> [i \in 1..Len(f.employees) |-> EmployeeFromDict(f.employees[i])],
          schedule |-> f.schedule]

\* [ret, employees, schedule] of load_data on file f with the current emps, sched
load_data(f, emps, sched) ==
    IF f = Missing THEN [ret |-> "False", employees |-> emps, schedule |-> sched]
    ELSE IF f = Unparseable THEN [ret |-> "False", employees |-> emps, schedule |-> sched]
    ELSE IF f = NotAnObject
    THEN [ret |-> "AttributeError", employees |-> emps, schedule |-> sched]
    ELSE [ret |-> "True",
          employees |-> [i \in 1..Len(f.employees) |-> EmployeeFromDict(f.employees[i])],
          schedule |-> f.schedule]

(* ------------------------------- inputs -------------------------------- *)

\* the employees the caller adds: two records share the id E1
EmployeeInputs ==
    {Employee("Ann", "E1", <<"Monday">>),
     Employee("Bob", "E1", <<"Tuesday">>),
     EmployeeDefault("Cy", "E2")}

\* the one employee of the persistence scenario
PersistInputs == {Employee("Ann", "E1", <<"Monday">>)}

\* the ids the caller passes
EmployeeIds == {"E1", "E2"}

\* start dates the caller passes; 2024-02-30 is no calendar date
StartDates == {<<2024, 2, 26>>, <<2024, 2, 27>>, <<2024, 2, 30>>}

\* dates the caller passes to assign_employee_to_shift
AssignDates == {<<2024, 2, 26>>, <<2024, 2, 27>>}

ShiftIndices == (0 - IndexSpan)..(IndexSpan - 1)

\* the template {} the caller can always pass
EmptyTemplate == [d \in {} |-> <<>>]

\* a template of three fresh Shift objects, as main() builds it
PlainTemplate(n) ==
    [d \in {"Monday", "Tuesday"} |-> IF d = "Monday" THEN <<n + 1, n + 2>> ELSE <<n + 3>>]

\* a template whose Monday and Tuesday lists hold the same Shift object
SharedTemplate(n) == [d \in {"Monday", "Tuesday"} |-> <<n + 1>>]

(* ----------------------------- state machine --------------------------- *)

Call(op, args, ret) == [op |-> op, args |-> args, ret |-> ret]

\* ScheduleGenerator.__init__, no file on disk, the caller holds no template
Init ==
    /\ employees = <<>>
    /\ schedule = <<>>
    /\ heap = <<>>
    /\ templates = <<>>
    /\ file = Missing
    /\ lastOp = Call("init", <<>>, None)

\* self.employees after add_employee(employee)
add_employee(emps, employee) == Append(emps, employee)

Add(employee) ==
    /\ Len(employees) < MaxEmployees
    /\ employees' = add_employee(employees, employee)
    /\ lastOp' = Call("add", <<employee.id>>, None)
    /\ UNCHANGED <<schedule, heap, templates, file>>

AddEmployee == \E employee \in EmployeeInputs : Add(employee)

AddPersistEmployee == \E employee \in PersistInputs : Add(employee)

\* the log of a removal also counts the employees it dropped
Remove(employee_id) ==
    /\ employees' = remove_employee(employees, employee_id)
    /\ lastOp' = [op |-> "remove", args |-> <<employee_id>>, ret |-> None,
                  dropped |-> Len(employees) - Len(employees')]
    /\ UNCHANGED <<schedule, heap, templates, file>>

RemoveEmployee == \E employee_id \in EmployeeIds : Remove(employee_id)

\* the caller constructs Shift objects and a template dict over them
NewPlainTemplate ==
    /\ Len(heap) + 3 <= MaxShiftObjects
    /\ heap' = heap \o <<Shift("09:00", "17:00", "Manager"),
                         Shift("10:00", "18:00", "Sales Associate"),
                         Shift("09:00", "17:00", "Manager")>>
    /\ templates' = Append(templates, PlainTemplate(Len(heap)))
    /\ lastOp' = Call("template", <<"plain">>, None)
    /\ UNCHANGED <<employees, schedule, file>>

NewSharedTemplate ==
    /\ Len(heap) + 1 <= MaxShiftObjects
    /\ heap' = heap \o <<Shift("10:00", "18:00", "Weekend Staff")>>
    /\ templates' = Append(templates, SharedTemplate(Len(heap)))
    /\ lastOp' = Call("template", <<"shared">>, None)
    /\ UNCHANGED <<employees, schedule, file>>

\* the templates the caller can pass
Templates == Range(templates) \cup {EmptyTemplate}

Create(start_date, shifts_per_day) ==
    LET r == create_weekly_schedule(schedule, start_date, shifts_per_day)
    IN /\ schedule' = r.schedule
       /\ lastOp' = Call("create", <<start_date, shifts_per_day>>, r.ret)
       /\ UNCHANGED <<employees, heap, templates, file>>

CreateWeeklySchedule ==
    \E start_date \in StartDates, shifts_per_day \in Templates :
        Create(start_date, shifts_per_day)

\* the log keeps the arguments of the calls that did not return False
Assign(date, shift_index, employee_id) ==
    LET r == assign_employee_to_shift(employees, schedule, heap,
                                      date, shift_index, employee_id)
    IN /\ heap' = r.heap
       /\ lastOp' = Call("assign",
                          IF r.ret = "False" THEN <<>>
                          ELSE <<date, shift_index, employee_id>>, r.ret)
       /\ UNCHANGED <<employees, schedule, templates, file>>

AssignEmployeeToShift ==
    \E date \in AssignDates, shift_index \in ShiftIndices, employee_id \in EmployeeIds :
        Assign(date, shift_index, employee_id)

ExportToCsv ==
    /\ lastOp' = Call("export_csv", <<>>, export_to_csv(employees, schedule, heap))
    /\ UNCHANGED <<employees, schedule, heap, templates, file>>

ExportToHtml ==
    /\ lastOp' = Call("export_html", <<>>, export_to_html(employees, schedule, heap))
    /\ UNCHANGED <<employees, schedule, heap, templates, file>>

PrintSchedule ==
    /\ lastOp' = Call("print", <<>>, print_schedule(employees, schedule, heap))
    /\ UNCHANGED <<employees, schedule, heap, templates, file>>

SaveData ==
    LET r == save_data(employees, schedule)
    IN /\ file' = r.file
       /\ lastOp' = Call("save", <<>>, r.ret)
       /\ UNCHANGED <<employees, schedule, heap, templates>>

LoadData ==
    LET r == load_data(file, employees, schedule)
    IN /\ employees' = r.employees
       /\ schedule' = r.schedule
       /\ lastOp' = Call("load", <<file.kind>>, r.ret)
       /\ UNCHANGED <<heap, templates, file>>

\* the file is deleted or overwritten from outside the program
FileChanged ==
    \E f \in {Missing, Unparseable, NotAnObject} :
        /\ file # f
        /\ file' = f
        /\ lastOp' = Call("file", <<f.kind>>, None)
        /\ UNCHANGED <<employees, schedule, heap, templates>>

\* the roster, the schedule and the renderings
Next ==
    \/ AddEmployee
    \/ RemoveEmployee
    \/ NewPlainTemplate
    \/ NewSharedTemplate
    \/ CreateWeeklySchedule
    \/ AssignEmployeeToShift
    \/ ExportToCsv
    \/ ExportToHtml
    \/ PrintSchedule

Spec == Init /\ [][Next]_vars

\* the roster and the schedule, every template built of Shift objects of its own
NextPlain ==
    \/ AddEmployee
    \/ RemoveEmployee
    \/ NewPlainTemplate
    \/ CreateWeeklySchedule
    \/ AssignEmployeeToShift

SpecPlain == Init /\ [][NextPlain]_vars

\* the roster, the schedule and the file
NextPersist ==
    \/ AddPersistEmployee
    \/ RemoveEmployee
    \/ NewPlainTemplate
    \/ CreateWeeklySchedule
    \/ AssignEmployeeToShift
    \/ SaveData
    \/ LoadData
    \/ FileChanged

SpecPersist == Init /\ [][NextPersist]_vars

(* ------------------------------- claims -------------------------------- *)

\* the day entry of a date that is a key of the store
Entry(sched, date) == sched[KeyPos(sched, date)]

\* the four preconditions of an assignment, in the state before the call
Preconditions(date, shift_index, employee_id) ==
    /\ HasKey(schedule, date)
    /\ shift_index \in 0..(Len(Entry(schedule, date).shifts) - 1)
    /\ get_employee(employees, employee_id) # NoEmployee
    /\ InList(Entry(schedule, date).day,
              get_employee(employees, employee_id).available_days)

\* the assignedEmployeeId of every shift of the store, by day and position
AssignedIds(sched, hp) ==
    [k \in 1..Len(sched) |->
        [j \in 1..Len(sched[k].shifts) |-> hp[sched[k].shifts[j]].employee_id]]

\* startTime, endTime and position of every shift of the store
ShiftSlots(sched, hp) ==
    [k \in 1..Len(sched) |->
        [j \in 1..Len(sched[k].shifts) |->
            <<hp[sched[k].shifts[j]].start_time, hp[sched[k].shifts[j]].end_time,
              hp[sched[k].shifts[j]].position>>]]

\* C1: an assignment returns success if and only if the date is a key of the
\* store, the index is within the day's shift list, the id resolves to an
\* employee and the day's label is among that employee's available days.
C1_SuccessIffPreconditions ==
    [][\A date \in AssignDates, shift_index \in ShiftIndices, employee_id \in EmployeeIds :
          Assign(date, shift_index, employee_id)
              => (lastOp'.ret = "True" <=> Preconditions(date, shift_index, employee_id))]_vars

\* C2: an assignment with a failing precondition returns failure without
\* raising, and leaves the roster and every shift's assigned id as they were.
C2_FailureLeavesStateUnchanged ==
    [][\A date \in AssignDates, shift_index \in ShiftIndices, employee_id \in EmployeeIds :
          (Assign(date, shift_index, employee_id)
              /\ ~Preconditions(date, shift_index, employee_id))
              => /\ lastOp'.ret = "False"
                 /\ employees' = employees
                 /\ AssignedIds(schedule', heap') = AssignedIds(schedule, heap)]_vars

Reloaded(f) == load_data(f, <<>>, <<>>)

\* the observable fields of a schedule: per date the label and the shifts' fields
Observable(sched, hp) ==
    [k \in 1..Len(sched) |->
        [date |-> sched[k].date, day |-> sched[k].day,
         shifts |-> [j \in 1..Len(sched[k].shifts) |-> hp[sched[k].shifts[j]]]]]

\* C4: after a save, loading the file into a fresh store succeeds and gives a
\* roster and a schedule equal to the saved ones in every observable field.
C4_SaveThenLoadRoundTrips ==
    lastOp.op = "save"
        => /\ lastOp.ret = None
           /\ Reloaded(file).ret = "True"
           /\ Reloaded(file).employees = employees
           /\ Observable(Reloaded(file).schedule, heap) = Observable(schedule, heap)

\* C5: after Remove(id) the lookup of id finds nothing, also when several
\* employees had that id; a removal of an absent id changes nothing and raises
\* nothing; and a lookup that finds nothing keeps finding nothing until an
\* employee with that id is added.
C5_RemovedStaysNotFound ==
    [][\A employee_id \in EmployeeIds :
          /\ (lastOp'.op = "remove" /\ lastOp'.args = <<employee_id>>)
                => /\ get_employee(employees', employee_id) = NoEmployee
                   /\ lastOp'.ret = None
                   /\ (get_employee(employees, employee_id) = NoEmployee
                          => employees' = employees)
          /\ (get_employee(employees, employee_id) = NoEmployee
                 /\ get_employee(employees', employee_id) # NoEmployee)
                => (lastOp'.op = "add" /\ lastOp'.args = <<employee_id>>)]_vars

\* C5 witness: a removal has dropped two employees that shared an id
C5_Witness ==
    /\ lastOp.op = "remove"
    /\ lastOp.dropped = 2
    /\ get_employee(employees, lastOp.args[1]) = NoEmployee

\* the calendar day after date string s
NextDay(s) ==
    IF s[3] < DaysInMonth(s[1], s[2]) THEN <<s[1], s[2], s[3] + 1>>
    ELSE IF s[2] < 12 THEN <<s[1], s[2] + 1, 1>>
    ELSE <<s[1] + 1, 1, 1>>

RECURSIVE PlusDays(_, _)
PlusDays(s, i) == IF i = 0 THEN s ELSE NextDay(PlusDays(s, i - 1))

WeekdayLabels ==
    <<"Monday", "Tuesday", "Wednesday", "Thursday", "Friday", "Saturday", "Sunday">>

\* C6: CreateWeeklySchedule(d, template) leaves exactly 7 entries, keyed by
\* d, d+1, ..., d+6 in that order; the entry at offset i carries the i-th label
\* of Monday..Sunday and the template's shift list for that label, or an empty
\* list when the template has none.
C6_SevenDaysLabelledByOffset ==
    [][\A d \in StartDates, template \in Templates :
          (lastOp'.op = "create" /\ lastOp'.args = <<d, template>> /\ ValidDate(d))
              => /\ lastOp'.ret = "schedule"
                 /\ Len(schedule') = 7
                 /\ \A i \in 0..6 :
                       /\ schedule'[i + 1].date = PlusDays(d, i)
                       /\ schedule'[i + 1].day = WeekdayLabels[i + 1]
                       /\ schedule'[i + 1].shifts =
                             (IF WeekdayLabels[i + 1] \in DOMAIN template
                              THEN template[WeekdayLabels[i + 1]] ELSE <<>>)]_vars

\* C6 witness: a week was created from a Tuesday (2024-02-27) across the leap
\* day with a template that has shifts for Monday and none for Wednesday
C6_Witness ==
    /\ lastOp.op = "create"
    /\ lastOp.args[1] = <<2024, 2, 27>>
    /\ Len(schedule) = 7
    /\ schedule[1].day = "Monday"
    /\ Len(schedule[1].shifts) = 2
    /\ schedule[3].date = <<2024, 2, 29>>
    /\ schedule[3].shifts = <<>>
    /\ schedule[7].date = <<2024, 3, 4>>

\* C7: after CreateWeeklySchedule the store's keys are exactly the 7 new dates
\* and every shift in it is unassigned, whatever the store held before.
C7_CreateReplacesEverything ==
    (lastOp.op = "create" /\ lastOp.ret = "schedule")
        => /\ Len(schedule) = 7
           /\ \A i \in 0..6 : schedule[i + 1].date = PlusDays(lastOp.args[1], i)
           /\ \A k \in 1..Len(schedule) : \A j \in 1..Len(schedule[k].shifts) :
                 heap[schedule[k].shifts[j]].employee_id = None

\* C8: a successful assignment sets the assigned id of the shift at position
\* shiftIndex of that date and changes nothing else: not the dates, labels,
\* list lengths, times or positions, not any other shift's assigned id, not
\* the roster.
C8_SuccessChangesOneShift ==
    [][\A date \in AssignDates, shift_index \in ShiftIndices, employee_id \in EmployeeIds :
          (Assign(date, shift_index, employee_id) /\ lastOp'.ret = "True")
              => /\ employees' = employees
                 /\ schedule' = schedule
                 /\ ShiftSlots(schedule', heap') = ShiftSlots(schedule, heap)
                 /\ shift_index \in 0..(Len(Entry(schedule, date).shifts) - 1)
                 /\ \A k \in 1..Len(schedule) : \A j \in 1..Len(schedule[k].shifts) :
                       AssignedIds(schedule', heap')[k][j] =
                           IF k = KeyPos(schedule, date) /\ j = shift_index + 1
                           THEN employee_id
                           ELSE AssignedIds(schedule, heap)[k][j]]_vars

\* the Employee text every format is to show for a shift
ExpectedEmployeeField(shift) ==
    IF shift.employee_id = None THEN "UNASSIGNED"
    ELSE IF get_employee(employees, shift.employee_id) # NoEmployee
    THEN get_employee(employees, shift.employee_id).name
    ELSE shift.employee_id

RECURSIVE ShiftsInOrder(_)
\* the store's shifts, day by day in insertion order, then in list order
ShiftsInOrder(k) ==
    IF k > Len(schedule) THEN <<>>
    ELSE [j \in 1..Len(schedule[k].shifts) |-> heap[schedule[k].shifts[j]]]
         \o ShiftsInOrder(k + 1)

\* the rows of a rendering that show a shift
ShiftRows(rows) == SelectSeq(rows, LAMBDA row : "employee" \in DOMAIN row)

\* C9: in the CSV, HTML and text renderings the Employee field of a shift is
\* the employee's name when the id resolves, the bare id when it is set and
\* does not resolve, and UNASSIGNED when no id is set; rows follow the days in
\* insertion order, then the shifts in list order.
C9_EmployeeFieldInEveryFormat ==
    lastOp.op \in {"export_csv", "export_html", "print"}
        => /\ Len(ShiftRows(lastOp.ret)) = Len(ShiftsInOrder(1))
           /\ \A n \in 1..Len(ShiftsInOrder(1)) :
                 /\ ShiftRows(lastOp.ret)[n].employee =
                        ExpectedEmployeeField(ShiftsInOrder(1)[n])
                 /\ ShiftRows(lastOp.ret)[n].position = ShiftsInOrder(1)[n].position

\* C10 as stated: in every reachable state, every shift whose assigned id
\* resolves to an employee lies on a day among that employee's available days.
C10_AvailabilityInvariant ==
    \A k \in 1..Len(schedule) : \A j \in 1..Len(schedule[k].shifts) :
        LET employee_id == heap[schedule[k].shifts[j]].employee_id
        IN (employee_id # None /\ get_employee(employees, employee_id) # NoEmployee)
              => InList(schedule[k].day,
                        get_employee(employees, employee_id).available_days)

\* C10 as amended: right after a successful assignment the id resolves to an
\* employee whose available days include the label of the assigned date, and
\* a shift of that date carries the id.
C10_AvailableWhenAssigned ==
    [][\A date \in AssignDates, shift_index \in ShiftIndices, employee_id \in EmployeeIds :
          (Assign(date, shift_index, employee_id) /\ lastOp'.ret = "True")
              => /\ HasKey(schedule', date)
                 /\ get_employee(employees', employee_id) # NoEmployee
                 /\ InList(Entry(schedule', date).day,
                           get_employee(employees', employee_id).available_days)
                 /\ \E j \in 1..Len(Entry(schedule', date).shifts) :
                       heap'[Entry(schedule', date).shifts[j]].employee_id = employee_id]_vars

\* C10 witness: Bob, available on Tuesday only, was assigned to a Tuesday shift
C10_Witness ==
    /\ lastOp.op = "assign"
    /\ lastOp.ret = "True"
    /\ lastOp.args[3] = "E1"
    /\ get_employee(employees, "E1").name = "Bob"
    /\ HasKey(schedule, lastOp.args[1])
    /\ Entry(schedule, lastOp.args[1]).day = "Tuesday"

====
